---- MODULE Spec2Model ----
(***************************************************************************)
(* Model of the NetView gateway: the result store and the sync reconciler  *)
(* (gateway/services/sync_service.py), the probe execution engine          *)
(* (gateway/services/probe_executor.py) and the callers of both            *)
(* (gateway/app.py).                                                       *)
(***************************************************************************)
EXTENDS Integers, Sequences, FiniteSets, TLC

\* ------------------------------------------------------------------ bounds
\* Number of results ever inserted into the table.
MaxResults == 2
\* max_local_results ranges over 0..MaxCap.
MaxCap == 1
\* Number of execute_probe calls.
MaxCalls == 2
\* Number of execute_probe calls recorded with their inputs.
MaxObserved == 1

\* ------------------------------------------------------------ Python values
\* An optional value (Python's None, or a value).
None == {}
Some(x) == {x}
TheValue(o) == CHOOSE x \in o : TRUE

\* The larger and the smaller of two numbers.
Max(a, b) == IF a >= b THEN a ELSE b
Min(a, b) == IF a <= b THEN a ELSE b

\* A text is a sequence of character codes (a block of digits of fixed width
\* counts as one code: its number).  Python's and SQLite's comparison of two
\* texts, character by character; a proper prefix comes first.
RECURSIVE TextLeq(_, _)
TextLeq(a, b) ==
    IF a = <<>> THEN TRUE
    ELSE IF b = <<>> THEN FALSE
    ELSE IF Head(a) # Head(b) THEN Head(a) < Head(b)
    ELSE TextLeq(Tail(a), Tail(b))
\* The characters '.' and 'Z'.
CharDot == 46
CharZ == 90

\* ------------------------------------------------------------------- state
VARIABLES
    cap,            \* config.max_local_results
    rows,           \* table probe_results: set of [id, uid, checkedAt, synced]
    nextId,         \* sqlite_sequence of probe_results: the next AUTOINCREMENT id
    lastSync,       \* SyncService.last_sync_time
    lastHeartbeat,  \* SyncService.last_heartbeat_time
    stored,         \* number of results inserted so far (the uid of the last one)
    st,             \* per caller of store_result_locally: its position and locals
    sy,             \* per caller of sync_results: its position and locals
    acked,          \* history: uids of the results in acknowledged pushes
    issued,         \* history: every [id, uid] the table ever assigned
    total_executions,       \* ProbeExecutor.total_executions
    successful_executions,  \* ProbeExecutor.successful_executions
    failed_executions,      \* ProbeExecutor.failed_executions
    calls,          \* history: what each execute_probe call so far ended with
    lastCall,       \* history: the last execute_probe call: its probe and outcome
    syncLog,        \* history: the last two sync_results calls made one after the other
    ploop,          \* probe_scheduler: its position and the probes left in its list
    sloop,          \* sync_scheduler: its position
    plog,           \* history: what probe_scheduler did in its current cycle
    slog,           \* history: what sync_scheduler did in its current cycle
    check,          \* history: the last call of a protocol checker and what it gave
    observed,       \* history: the last execute_probe call with what it was given
    ex              \* per caller of execute_probe: its position and locals

storeVars == <<cap, rows, nextId, lastSync, lastHeartbeat, stored, st, sy, acked, issued>>
execVars == <<total_executions, successful_executions, failed_executions, calls, lastCall>>
histVars == <<syncLog>>
loopVars == <<ploop, sloop, plog, slog>>
checkVars == <<check, observed>>
raceVars == <<ex>>
auxVars == <<histVars, loopVars, checkVars, raceVars>>
vars == <<storeVars, execVars, auxVars>>

\* The caller of store_result_locally: probe_scheduler (the /execute route makes
\* the same call; the calls of one caller do not overlap).
Storers == {"probe"}
\* The callers of execute_probe: probe_scheduler and the /execute route.
Executors == {"probe", "manual"}
\* The callers of sync_results: sync_scheduler and the /sync route.
Syncers == {"sync", "manual"}

\* ---------------------------------------------------------- the result store
\* INSERT INTO probe_results: the id comes from AUTOINCREMENT, synced defaults
\* to FALSE.
InsertRow(rs, id, uid, ts) ==
    rs \cup {[id |-> id, uid |-> uid, checkedAt |-> ts, synced |-> FALSE]}

\* Mutant: a plain INTEGER PRIMARY KEY, whose next id is one more than the
\* largest id now in the table.
NewId_MaxPlusOne(rs, seq) ==
    IF rs = {} THEN 1
    ELSE (CHOOSE m \in {r.id : r \in rs} : \A r \in rs : r.id <= m) + 1

\* The id AUTOINCREMENT gives the next row: larger than every id the table
\* ever held.
NewId(rs, seq) == seq

Unsynced(rs) == {r \in rs : ~r.synced}
Synced(rs) == {r \in rs : r.synced}

\* One row as get_unsynced_results returns it (the id and the result's fields).
Entry(r) == [id |-> r.id, uid |-> r.uid, checkedAt |-> r.checkedAt]

\* Mutant: the SELECT with LIMIT 1: only the first row of the backlog.
UnsyncedLists_LimitOne(rs) ==
    LET U == {Entry(r) : r \in Unsynced(rs)}
    IN IF U = {} THEN {<<>>}
       ELSE {<<u>> : u \in {x \in U : \A y \in U : TextLeq(x.checkedAt, y.checkedAt)}}

\* SELECT ... WHERE synced = FALSE ORDER BY checked_at ASC: every order of the
\* unsynced rows that is ascending in checked_at (ties in any order).
UnsyncedLists(rs) ==
    LET U == {Entry(r) : r \in Unsynced(rs)}
        n == Cardinality(U)
    IN {s \in [1..n -> U] :
          /\ \A i, j \in 1..n : i # j => s[i] # s[j]
          /\ \A i, j \in 1..n : i < j => TextLeq(s[i].checkedAt, s[j].checkedAt)}

\* sync_results: result_ids, the local ids popped from the entries.
ResultIds(b) == {b[i].id : i \in 1..Len(b)}
\* sync_results: api_results, the entries without their local id.
ApiResults(b) == [i \in 1..Len(b) |-> [uid |-> b[i].uid, checkedAt |-> b[i].checkedAt]]
ApiUids(b) == {b[i].uid : i \in 1..Len(b)}

\* Mutant: one UPDATE and one commit per id, a reader coming in after the first.
MarkSynced_FirstRowOnly(rs, ids) ==
    {IF r.id \in ids /\ (\A i \in ids : r.id <= i) THEN [r EXCEPT !.synced = TRUE] ELSE r
        : r \in rs}
\* Mutant: the UPDATE without its WHERE clause.
MarkSynced_All(rs, ids) == {[r EXCEPT !.synced = TRUE] : r \in rs}
\* Mutant: UPDATE probe_results SET synced = (id IN (ids)).
MarkSynced_Exactly(rs, ids) == {[r EXCEPT !.synced = (r.id \in ids)] : r \in rs}
\* Mutant: the UPDATE is never committed.
MarkSynced_None(rs, ids) == rs

\* UPDATE probe_results SET synced = TRUE WHERE id IN (ids)
MarkSynced(rs, ids) ==
    {IF r.id \in ids THEN [r EXCEPT !.synced = TRUE] ELSE r : r \in rs}

\* Mutant: the DELETE without "WHERE synced = TRUE": the oldest rows of all.
CleanupVictims_AnyRow(rs, k) ==
    LET m == IF k < Cardinality(rs) THEN k ELSE Cardinality(rs)
    IN {D \in SUBSET rs :
          /\ Cardinality(D) = m
          /\ \A d \in D : \A r \in rs \ D : TextLeq(d.checkedAt, r.checkedAt)}

\* DELETE ... WHERE id IN (SELECT id ... WHERE synced = TRUE ORDER BY checked_at
\* ASC LIMIT k): the sets of rows the statement may delete (ties in any order).
CleanupVictims(rs, k) ==
    LET S == Synced(rs)
        m == IF k < Cardinality(S) THEN k ELSE Cardinality(S)
    IN {D \in SUBSET S :
          /\ Cardinality(D) = m
          /\ \A d \in D : \A r \in S \ D : TextLeq(d.checkedAt, r.checkedAt)}

\* ------------------------------------------------------------------- Init
IdleStore == [pc |-> "idle", total |-> 0]
IdleSync == [pc |-> "idle", batch |-> <<>>, ret |-> None, sent |-> FALSE]
IdleExec == [pc |-> "idle", tmp |-> 0, outcome |-> "none"]
\* No sync_results call was made yet.
NoSyncLog == [prev |-> None, last |-> None, between |-> FALSE, since |-> FALSE]
\* probe_scheduler and sync_scheduler at the top of their "while True".
IdleProbeLoop == [pc |-> "fetch", probes |-> <<>>, i |-> 1]
IdleSyncLoop == [pc |-> "heartbeat"]

Init ==
    /\ cap \in 0..MaxCap
    /\ rows = {}
    /\ nextId = 1
    /\ lastSync = None
    /\ lastHeartbeat = None
    /\ stored = 0
    /\ st = [t \in Storers |-> IdleStore]
    /\ sy = [t \in Syncers |-> IdleSync]
    /\ acked = {}
    /\ issued = {}
    /\ total_executions = 0
    /\ successful_executions = 0
    /\ failed_executions = 0
    /\ calls = [n |-> 0, up |-> 0, nonUp |-> 0, raised |-> 0]
    /\ lastCall = None
    /\ syncLog = NoSyncLog
    /\ ploop = IdleProbeLoop
    /\ sloop = IdleSyncLoop
    /\ plog = <<>>
    /\ slog = <<>>
    /\ check = None
    /\ observed = None
    /\ ex = [t \in Executors |-> IdleExec]

\* ------------------------------------------------------------------ clock
\* The readings time.time() may give.
Times == {0, 1}
\* The readings datetime.utcnow() may give: a second and its microseconds.
UtcNow == {[sec |-> 0, usec |-> 0], [sec |-> 0, usec |-> 500000]}
\* datetime.isoformat(): 'YYYY-MM-DDTHH:MM:SS', followed by '.ffffff' only when
\* the microseconds are not zero.
IsoFormat(t) == IF t.usec = 0 THEN <<t.sec>> ELSE <<t.sec, CharDot, t.usec>>
\* execute_probe: datetime.utcnow().isoformat() + 'Z'
CheckedAt(t) == IsoFormat(t) \o <<CharZ>>

\* ---------------------------------------------------- store_result_locally
\* The INSERT commits: the row is in the table; _cleanup_old_results follows.
StoreInsertOk(t) ==
    /\ st[t].pc = "idle"
    /\ stored < MaxResults
    /\ \E at \in UtcNow :
         LET id == NewId(rows, nextId) IN
         /\ rows' = InsertRow(rows, id, stored + 1, CheckedAt(at))
         /\ nextId' = id + 1
         /\ issued' = issued \cup {[id |-> id, uid |-> stored + 1]}
    /\ stored' = stored + 1
    /\ st' = [st EXCEPT ![t] = [pc |-> "count", total |-> 0]]
    /\ UNCHANGED <<cap, lastSync, lastHeartbeat, sy, acked, execVars, auxVars>>

\* The INSERT raises (a constraint, a locked database): the exception is logged,
\* the result is not stored and the cleanup is skipped.
StoreInsertFail(t) ==
    /\ st[t].pc = "idle"
    /\ UNCHANGED vars

\* _cleanup_old_results: SELECT COUNT(*), then the comparison with the cap.
CleanupCount(t) ==
    /\ st[t].pc = "count"
    /\ LET total_count == Cardinality(rows) IN
       st' = [st EXCEPT ![t] =
                IF total_count > cap
                THEN [pc |-> "delete", total |-> total_count]
                ELSE IdleStore]
    /\ UNCHANGED <<cap, rows, nextId, lastSync, lastHeartbeat, stored, sy, acked, issued, execVars, auxVars>>

\* _cleanup_old_results: the DELETE of the oldest synced rows, and its commit.
CleanupDelete(t) ==
    /\ st[t].pc = "delete"
    /\ \E D \in CleanupVictims(rows, st[t].total - cap) : rows' = rows \ D
    /\ st' = [st EXCEPT ![t] = IdleStore]
    /\ UNCHANGED <<cap, nextId, lastSync, lastHeartbeat, stored, sy, acked, issued, execVars, auxVars>>

\* _cleanup_old_results: a statement raises; the exception is logged.
CleanupFail(t) ==
    /\ st[t].pc \in {"count", "delete"}
    /\ st' = [st EXCEPT ![t] = IdleStore]
    /\ UNCHANGED <<cap, rows, nextId, lastSync, lastHeartbeat, stored, sy, acked, issued, execVars, auxVars>>

\* ------------------------------------------------------------ send_heartbeat
\* sync_scheduler: the cycle starts with send_heartbeat; last_heartbeat_time is
\* set when the backend answers with success; every failure is logged.
\* Mutant: the success branch assigns last_sync_time as well.
LastSyncAfterHeartbeat_Stamped(ls, ok, ts) == IF ok THEN Some(ts) ELSE ls

\* last_sync_time after send_heartbeat: the call reads it for its payload and
\* assigns only last_heartbeat_time.
LastSyncAfterHeartbeat(ls, ok, ts) == ls

SendHeartbeat ==
    /\ sy["sync"].pc = "idle"
    /\ \E ok \in BOOLEAN, ts \in Times :
         /\ lastHeartbeat' = IF ok THEN Some(ts) ELSE lastHeartbeat
         /\ lastSync' = LastSyncAfterHeartbeat(lastSync, ok, ts)
    /\ sy' = [sy EXCEPT !["sync"] = [IdleSync EXCEPT !.pc = "read"]]
    /\ UNCHANGED <<cap, rows, nextId, stored, st, acked, issued, execVars, auxVars>>

\* The /sync route: manual_sync calls sync_results.
ManualSync ==
    /\ sy["manual"].pc = "idle"
    /\ sy' = [sy EXCEPT !["manual"] = [IdleSync EXCEPT !.pc = "read"]]
    /\ UNCHANGED <<cap, rows, nextId, lastSync, lastHeartbeat, stored, st, acked, issued, execVars, auxVars>>

\* -------------------------------------------------------------- sync_results
\* Mutant: sync_results without its "if not unsynced_results: return 0".
AfterRead_AlwaysPost(t, b) ==
    sy' = [sy EXCEPT ![t] = [IdleSync EXCEPT !.pc = "post", !.batch = b]]

\* What sync_results does with the list get_unsynced_results returned.
AfterRead(t, b) ==
    sy' = [sy EXCEPT ![t] =
             IF b = <<>>
             THEN [IdleSync EXCEPT !.pc = "done", !.ret = Some(0)]
             ELSE [IdleSync EXCEPT !.pc = "post", !.batch = b]]

\* get_unsynced_results answers; with nothing to sync, sync_results returns 0.
SyncRead(t) ==
    /\ sy[t].pc = "read"
    /\ \E b \in UnsyncedLists(rows) : AfterRead(t, b)
    /\ UNCHANGED <<cap, rows, nextId, lastSync, lastHeartbeat, stored, st, acked, issued, execVars, auxVars>>

\* get_unsynced_results raises inside: it logs and returns [].
SyncReadFail(t) ==
    /\ sy[t].pc = "read"
    /\ AfterRead(t, <<>>)
    /\ UNCHANGED <<cap, rows, nextId, lastSync, lastHeartbeat, stored, st, acked, issued, execVars, auxVars>>

\* requests.post and raise_for_status succeed: the backend acknowledged the batch.
SyncPostOk(t) ==
    /\ sy[t].pc = "post"
    /\ acked' = acked \cup ApiUids(sy[t].batch)
    /\ sy' = [sy EXCEPT ![t].pc = "mark", ![t].sent = TRUE]
    /\ UNCHANGED <<cap, rows, nextId, lastSync, lastHeartbeat, stored, st, issued, execVars, auxVars>>

\* Mutant: the batch is marked before the backend's answer is looked at.
RowsAfterFailedPush_Marked(rs, ids) ==
    {IF r.id \in ids THEN [r EXCEPT !.synced = TRUE] ELSE r : r \in rs}

\* What a failed push leaves of the table.
RowsAfterFailedPush(rs, ids) == rs

\* Mutant: requests.post in a retry loop: the call stays at its push.
AfterFailedPush_Retry(c) == [c EXCEPT !.sent = TRUE]

\* Where a sync_results call is after its push failed: both except clauses log
\* and return 0.
AfterFailedPush(c) == [IdleSync EXCEPT !.pc = "done", !.ret = Some(0), !.sent = TRUE]

\* requests.post raises or the backend answers with an error status:
\* sync_results logs and returns 0.
SyncPostFail(t) ==
    /\ sy[t].pc = "post"
    /\ rows' = RowsAfterFailedPush(rows, ResultIds(sy[t].batch))
    /\ sy' = [sy EXCEPT ![t] = AfterFailedPush(sy[t])]
    /\ UNCHANGED <<cap, nextId, lastSync, lastHeartbeat, stored, st, acked, issued, execVars, auxVars>>

\* mark_results_synced: the UPDATE commits.
SyncMarkOk(t) ==
    /\ sy[t].pc = "mark"
    /\ rows' = MarkSynced(rows, ResultIds(sy[t].batch))
    /\ sy' = [sy EXCEPT ![t].pc = "stamp"]
    /\ UNCHANGED <<cap, nextId, lastSync, lastHeartbeat, stored, st, acked, issued, execVars, auxVars>>

\* mark_results_synced: the UPDATE raises; the exception is logged there and
\* sync_results goes on.
SyncMarkFail(t) ==
    /\ sy[t].pc = "mark"
    /\ sy' = [sy EXCEPT ![t].pc = "stamp"]
    /\ UNCHANGED <<cap, rows, nextId, lastSync, lastHeartbeat, stored, st, acked, issued, execVars, auxVars>>

\* sync_results: last_sync_time = time.time(); return len(api_results).
SyncStamp(t) ==
    /\ sy[t].pc = "stamp"
    /\ \E ts \in Times : lastSync' = Some(ts)
    /\ sy' = [sy EXCEPT ![t] =
                [IdleSync EXCEPT !.pc = "done", !.sent = TRUE,
                                 !.ret = Some(Len(ApiResults(sy[t].batch)))]]
    /\ UNCHANGED <<cap, rows, nextId, lastHeartbeat, stored, st, acked, issued, execVars, auxVars>>

\* sync_results has returned: manual_sync answers its request, sync_scheduler
\* sleeps sync_interval and starts its next cycle.
SyncReturn(t) ==
    /\ sy[t].pc = "done"
    /\ sy' = [sy EXCEPT ![t] = IdleSync]
    /\ UNCHANGED <<cap, rows, nextId, lastSync, lastHeartbeat, stored, st, acked, issued, execVars, auxVars>>

\* ------------------------------------------------ the probe execution engine
\* config.gateway_id
GatewayId == "gw"
\* config.default_timeout
DefaultTimeout == 30
\* probe.get('expectedStatusCode', 200)
DefaultExpectedStatus == 200

\* dict.get(key, default) on an optional field.
Get(o, default) == IF o = None THEN default ELSE TheValue(o)

\* A message is the sequence of the pieces its f-string is made of.
MsgEmpty(m) == \A i \in 1..Len(m) : m[i] = ""

\* '; '.join(issues)
RECURSIVE JoinIssues(_)
JoinIssues(iss) ==
    IF iss = <<>> THEN <<>>
    ELSE IF Len(iss) = 1 THEN iss[1]
    ELSE iss[1] \o <<"; ">> \o JoinIssues(Tail(iss))

\* The probes the backend or the /execute route may hand over: a field that is
\* None is absent from the dict. Only the fields the probe's path reads vary.
ProbeTypes == {"Uptime", "API", "Security", "Browser", "FTP"}
Protocols == {"HTTP", "HTTPS", "TCP", "SMTP", "DNS", "ICMP"}
Probes ==
    {p \in [id : {None, Some("p1")},
            type : {None} \cup {Some(x) : x \in ProbeTypes},
            protocol : {None} \cup {Some(x) : x \in Protocols},
            expectedStatusCode : {None, Some(503)},
            expectedResponseTime : {None, Some(5000)},
            https : BOOLEAN] :
        LET ty == Get(p.type, "Uptime")
            http == ty = "API" \/ (ty = "Uptime" /\ Get(p.protocol, "HTTPS") \in {"HTTP", "HTTPS"})
        IN /\ p.protocol # None => ty = "Uptime"
           /\ p.expectedStatusCode # None => http
           /\ p.expectedResponseTime # None => http
           /\ p.https => ty = "Security"}

\* What the network and the libraries answer to one check.
NoEnv == [tag |-> "none", code |-> 200, text |-> "", cert |-> "skipped", page |-> "none"]
ExcTexts == {"", "boom"}
HttpEnvs ==
    {[NoEnv EXCEPT !.tag = "response", !.code = c] : c \in {200, 503}}
    \cup {[NoEnv EXCEPT !.tag = "timeout"]}
    \cup {[NoEnv EXCEPT !.tag = k, !.text = x] :
            k \in {"request_exception", "exception"}, x \in ExcTexts}
TcpEnvs ==
    {[NoEnv EXCEPT !.tag = k] : k \in {"connected", "refused"}}
    \cup {[NoEnv EXCEPT !.tag = "exception", !.text = x] : x \in ExcTexts}
SmtpEnvs ==
    {[NoEnv EXCEPT !.tag = "connected"]}
    \cup {[NoEnv EXCEPT !.tag = "exception", !.text = x] : x \in ExcTexts}
DnsEnvs ==
    {[NoEnv EXCEPT !.tag = k] : k \in {"answers", "no_answers"}}
    \cup {[NoEnv EXCEPT !.tag = "exception", !.text = x] : x \in ExcTexts}
SecurityEnvs(https) ==
    {[NoEnv EXCEPT !.tag = "checked", !.cert = c, !.page = g] :
        c \in (IF https THEN {"valid", "expiring", "error"} ELSE {"skipped"}),
        g \in {"clean", "missing_headers", "server_disclosed", "missing_and_disclosed",
               "exception"}}
    \cup {[NoEnv EXCEPT !.tag = "exception", !.text = x] : x \in ExcTexts}
BrowserEnvs ==
    {[NoEnv EXCEPT !.tag = k] : k \in {"unsupported", "clean", "issues"}}
    \cup {[NoEnv EXCEPT !.tag = "exception", !.text = x] : x \in ExcTexts}
Envs(p) ==
    LET ty == Get(p.type, "Uptime")
        proto == Get(p.protocol, "HTTPS")
    IN CASE p.id = None -> {NoEnv}
         [] ty = "API" -> HttpEnvs
         [] ty = "Security" -> SecurityEnvs(p.https)
         [] ty = "Browser" -> BrowserEnvs
         [] ty = "Uptime" /\ proto \in {"HTTP", "HTTPS"} -> HttpEnvs
         [] ty = "Uptime" /\ proto = "TCP" -> TcpEnvs
         [] ty = "Uptime" /\ proto = "SMTP" -> SmtpEnvs
         [] ty = "Uptime" /\ proto = "DNS" -> DnsEnvs
         [] OTHER -> {NoEnv}

\* What a checker ends with: the dict it returns, or the exception it lets out.
Returns(d) == [raised |-> FALSE, text |-> "", upd |-> d]
Raises(text) == [raised |-> TRUE, text |-> text, upd |-> <<>>]
Down(msg) == Returns([status |-> "Down", errorMessage |-> Some(msg)])

\* probe.get('expectedResponseTime', self.config.default_timeout) / 1000: the
\* timeout in seconds, as the fraction num/den.
Timeout(p) == [num |-> Get(p.expectedResponseTime, DefaultTimeout), den |-> 1000]
TimeoutText(t) == <<ToString(t.num), "/", ToString(t.den)>>

\* Mutant: any status code below 400 counts as Up (response.ok in place of the
\* comparison with the expected code).
HttpOutcome_AnySuccess(expected, timeout, e) ==
    CASE e.tag = "response" ->
           LET up == e.code < 400 IN
           Returns([status |-> IF up THEN "Up" ELSE "Down",
                    statusCode |-> Some(e.code),
                    errorMessage |->
                        IF up THEN None
                        ELSE Some(<<"Expected status ", ToString(expected),
                                    ", got ", ToString(e.code)>>),
                    responseBody |-> Some("text")])
      [] e.tag = "timeout" ->
           Down(<<"Request timed out after ", ToString(timeout.num), "/",
                  ToString(timeout.den), "s">>)
      [] e.tag = "request_exception" -> Down(<<e.text>>)
      [] OTHER -> Raises(e.text)

\* The outcome of an HTTP request: _check_http, and the request of
\* _execute_api_probe.
HttpOutcome(expected, timeout, e) ==
    CASE e.tag = "response" ->
           LET up == e.code = expected IN
           Returns([status |-> IF up THEN "Up" ELSE "Down",
                    statusCode |-> Some(e.code),
                    errorMessage |->
                        IF up THEN None
                        ELSE Some(<<"Expected status ", ToString(expected),
                                    ", got ", ToString(e.code)>>),
                    responseBody |-> Some("text")])
      [] e.tag = "timeout" ->
           Down(<<"Request timed out after ">> \o TimeoutText(timeout) \o <<"s">>)
      [] e.tag = "request_exception" -> Down(<<e.text>>)
      [] OTHER -> Raises(e.text)

CheckHttp(expected, timeout, e) == HttpOutcome(expected, timeout, e)

CheckTcp(timeout, e) ==
    CASE e.tag = "connected" -> Returns([status |-> "Up", statusCode |-> Some(200)])
      [] e.tag = "refused" -> Down(<<"TCP connection failed to ", "host:port">>)
      [] OTHER -> Down(<<"TCP check failed: ", e.text>>)

CheckSmtp(timeout, e) ==
    CASE e.tag = "connected" -> Returns([status |-> "Up", statusCode |-> Some(220)])
      [] OTHER -> Down(<<"SMTP check failed: ", e.text>>)

CheckDns(timeout, e) ==
    CASE e.tag = "answers" ->
           Returns([status |-> "Up", statusCode |-> Some(200),
                    responseBody |-> Some("Resolved to: addresses")])
      [] e.tag = "no_answers" -> Down(<<"DNS resolution failed for ", "host">>)
      [] OTHER -> Down(<<"DNS check failed: ", e.text>>)

ExecuteUptimeProbe(p, e) ==
    LET protocol == Get(p.protocol, "HTTPS")
        expected_status == Get(p.expectedStatusCode, DefaultExpectedStatus)
        timeout == Timeout(p)
    IN CASE protocol \in {"HTTP", "HTTPS"} -> CheckHttp(expected_status, timeout, e)
         [] protocol = "TCP" -> CheckTcp(timeout, e)
         [] protocol = "SMTP" -> CheckSmtp(timeout, e)
         [] protocol = "DNS" -> CheckDns(timeout, e)
         [] OTHER -> Down(<<"Unsupported protocol: ", protocol>>)

ExecuteApiProbe(p, e) ==
    HttpOutcome(Get(p.expectedStatusCode, DefaultExpectedStatus), Timeout(p), e)

\* Mutant: the findings of the certificate check are dropped when the header
\* check reports its own.
SecurityIssues_HeadersOnly(e) ==
    LET headers ==
          CASE e.page = "missing_headers" -> << <<"Missing security headers: ", "names">> >>
            [] e.page = "server_disclosed" -> << <<"Server version disclosed: ", "server">> >>
            [] e.page = "missing_and_disclosed" ->
                 << <<"Missing security headers: ", "names">>,
                    <<"Server version disclosed: ", "server">> >>
            [] e.page = "exception" -> << <<"HTTP check failed: ", "cause">> >>
            [] OTHER -> <<>>
    IN IF headers # <<>> THEN headers
       ELSE CASE e.cert = "expiring" -> << <<"SSL certificate expires in ", "days", " days">> >>
              [] e.cert = "error" -> << <<"SSL certificate error: ", "cause">> >>
              [] OTHER -> <<>>

\* The findings of the certificate check, then those of the header check.
SecurityIssues(e) ==
    (CASE e.cert = "expiring" -> << <<"SSL certificate expires in ", "days", " days">> >>
       [] e.cert = "error" -> << <<"SSL certificate error: ", "cause">> >>
       [] OTHER -> <<>>)
    \o
    (CASE e.page = "missing_headers" -> << <<"Missing security headers: ", "names">> >>
       [] e.page = "server_disclosed" -> << <<"Server version disclosed: ", "server">> >>
       [] e.page = "missing_and_disclosed" ->
            << <<"Missing security headers: ", "names">>,
               <<"Server version disclosed: ", "server">> >>
       [] e.page = "exception" -> << <<"HTTP check failed: ", "cause">> >>
       [] OTHER -> <<>>)

ExecuteSecurityProbe(p, e) ==
    IF e.tag = "exception" THEN Down(<<"Security check failed: ", e.text>>)
    ELSE LET security_issues == SecurityIssues(e) IN
         Returns([status |-> IF security_issues = <<>> THEN "Up" ELSE "Warning",
                  statusCode |-> Some(IF security_issues = <<>> THEN 200 ELSE 206),
                  errorMessage |->
                      IF security_issues = <<>> THEN None
                      ELSE Some(JoinIssues(security_issues)),
                  responseBody |-> Some("security_issues")])

ExecuteBrowserProbe(p, e) ==
    CASE e.tag = "unsupported" ->
           Down(<<"Browser monitoring not supported (selenium not installed)">>)
      [] e.tag = "clean" ->
           Returns([status |-> "Up", statusCode |-> Some(200), errorMessage |-> None,
                    responseBody |-> Some("page")])
      [] e.tag = "issues" ->
           Returns([status |-> "Warning", statusCode |-> Some(200),
                    errorMessage |-> Some(<<"issues">>),
                    responseBody |-> Some("page")])
      [] OTHER -> Down(<<"Browser check failed: ", e.text>>)

\* execute_probe: the dispatch on the probe type.
Dispatch(p, e) ==
    LET probe_type == Get(p.type, "Uptime") IN
    CASE probe_type = "Uptime" -> ExecuteUptimeProbe(p, e)
      [] probe_type = "API" -> ExecuteApiProbe(p, e)
      [] probe_type = "Security" -> ExecuteSecurityProbe(p, e)
      [] probe_type = "Browser" -> ExecuteBrowserProbe(p, e)
      [] OTHER -> Down(<<"Unsupported probe type: ", probe_type>>)

\* result.update(d)
Update(base, d) == [k \in DOMAIN base |-> IF k \in DOMAIN d THEN d[k] ELSE base[k]]

\* Mutant: the elapsed time is not multiplied by 1000 (whole seconds).
ResponseTime_Seconds(start, end) ==
    IF end >= start THEN (end - start) \div 1000000 ELSE -((start - end) \div 1000000)

\* int((time.time() - start_time) * 1000), the clock read in microseconds:
\* int() truncates towards zero.
ResponseTime(start, end) ==
    IF end >= start THEN (end - start) \div 1000 ELSE -((start - end) \div 1000)

\* The readings of time.time() around one call, in microseconds.
ClockReadings == {0, 2500}

\* execute_probe(probe): what the call ends with (an exception let out, or the
\* result returned) and what it adds to successful_executions and
\* failed_executions; total_executions is incremented on entry.
ExecuteProbe(p, e, start, end, at) ==
    IF p.id = None
    THEN \* probe['id'] raises KeyError in the try block; the handler counts the
         \* failure and evaluates probe['id'] again for its log line.
         [raised |-> TRUE, result |-> None, up |-> 0, failed |-> 1]
    ELSE LET base == [probeId |-> p.id,
                      gatewayId |-> Some(GatewayId),
                      status |-> "Unknown",
                      responseTime |-> Some(0),
                      statusCode |-> None,
                      errorMessage |-> None,
                      responseBody |-> None,
                      checkedAt |-> Some(CheckedAt(at))]
             out == Dispatch(p, e)
         IN IF out.raised
            THEN [raised |-> FALSE,
                  result |-> Some([base EXCEPT
                                     !.status = "Down",
                                     !.responseTime = Some(ResponseTime(start, end)),
                                     !.errorMessage = Some(<<out.text>>)]),
                  up |-> 0, failed |-> 1]
            ELSE LET result == [Update(base, out.upd) EXCEPT
                                  !.responseTime = Some(ResponseTime(start, end))]
                 IN [raised |-> FALSE, result |-> Some(result),
                     up |-> IF result.status = "Up" THEN 1 ELSE 0,
                     failed |-> IF result.status = "Up" THEN 0 ELSE 1]

\* One call of execute_probe, from entry to return; calls do not overlap.
ExecuteProbeCall ==
    /\ calls.n < MaxCalls
    /\ \E p \in Probes : \E e \in Envs(p) : \E start \in {0}, end \in ClockReadings, at \in UtcNow :
         LET o == ExecuteProbe(p, e, start, end, at)
             isUp == ~o.raised /\ TheValue(o.result).status = "Up"
         IN /\ total_executions' = total_executions + 1
            /\ successful_executions' = successful_executions + o.up
            /\ failed_executions' = failed_executions + o.failed
            /\ calls' = [n |-> calls.n + 1,
                         up |-> calls.up + (IF isUp THEN 1 ELSE 0),
                         nonUp |-> calls.nonUp + (IF ~o.raised /\ ~isUp THEN 1 ELSE 0),
                         raised |-> calls.raised + (IF o.raised THEN 1 ELSE 0)]
            /\ lastCall' = Some([raised |-> o.raised, result |-> o.result])
    /\ UNCHANGED <<storeVars, auxVars>>

ExecNext == ExecuteProbeCall

ExecSpec == Init /\ [][ExecNext]_vars

\* The engine does not read the store's cap: one value of it is enough here.
EngineInit == Init /\ cap = 0

\* ------------------------------------------- execute_probe calls that overlap
\* The two callers run in different threads, and "self.x += 1" is a read of
\* the attribute followed by a write of the sum: the interpreter may switch
\* threads between the two.

\* The value "self.x += 1" writes: one more than the value it loaded.
Incremented(loaded, current) == loaded + 1

\* execute_probe is entered: the load of self.total_executions.
RaceEnter(t) ==
    /\ ex[t].pc = "idle"
    /\ calls.n + Cardinality({u \in Executors : ex[u].pc # "idle"}) < MaxCalls
    /\ ex' = [ex EXCEPT ![t] = [pc |-> "total", tmp |-> total_executions, outcome |-> "none"]]
    /\ UNCHANGED <<storeVars, execVars, histVars, loopVars, checkVars>>

\* The store of self.total_executions.
RaceStoreTotal(t) ==
    /\ ex[t].pc = "total"
    /\ total_executions' = Incremented(ex[t].tmp, total_executions)
    /\ ex' = [ex EXCEPT ![t].pc = "check"]
    /\ UNCHANGED <<storeVars, successful_executions, failed_executions, calls, lastCall,
                   histVars, loopVars, checkVars>>

\* The check runs and the counter to increment is chosen (lines 79-82, or 88
\* in the handler); the load of that counter.
RaceCheck(t) ==
    /\ ex[t].pc = "check"
    /\ \E p \in Probes : \E e \in Envs(p) :
         LET o == ExecuteProbe(p, e, 0, 0, CHOOSE at \in UtcNow : TRUE)
             outcome == IF o.raised THEN "raised" ELSE IF o.up = 1 THEN "up" ELSE "nonUp"
         IN ex' = [ex EXCEPT ![t] = [pc |-> "count",
                                     tmp |-> IF outcome = "up" THEN successful_executions
                                             ELSE failed_executions,
                                     outcome |-> outcome]]
    /\ UNCHANGED <<storeVars, execVars, histVars, loopVars, checkVars>>

\* The store of that counter; the call returns (or lets its exception out).
RaceStoreCount(t) ==
    /\ ex[t].pc = "count"
    /\ IF ex[t].outcome = "up"
       THEN /\ successful_executions' = Incremented(ex[t].tmp, successful_executions)
            /\ failed_executions' = failed_executions
       ELSE /\ failed_executions' = Incremented(ex[t].tmp, failed_executions)
            /\ successful_executions' = successful_executions
    /\ calls' = [n |-> calls.n + 1,
                 up |-> calls.up + (IF ex[t].outcome = "up" THEN 1 ELSE 0),
                 nonUp |-> calls.nonUp + (IF ex[t].outcome = "nonUp" THEN 1 ELSE 0),
                 raised |-> calls.raised + (IF ex[t].outcome = "raised" THEN 1 ELSE 0)]
    /\ ex' = [ex EXCEPT ![t] = IdleExec]
    /\ UNCHANGED <<storeVars, total_executions, lastCall, histVars, loopVars, checkVars>>

RaceNext ==
    \/ \E t \in Executors : RaceEnter(t)
    \/ \E t \in Executors : RaceStoreTotal(t)
    \/ \E t \in Executors : RaceCheck(t)
    \/ \E t \in Executors : RaceStoreCount(t)

RaceSpec == EngineInit /\ [][RaceNext]_vars

\* ------------------------------------------- execute_probe calls on record
\* One call of execute_probe, not overlapping any other, recorded with the
\* probe it was given,
\* what the network answered, and the clock readings at entry and at return.
ExecuteProbeObserved ==
    /\ calls.n < MaxObserved
    /\ \E p \in Probes : \E e \in Envs(p) : \E start \in {0}, end \in ClockReadings, at \in UtcNow :
         LET o == ExecuteProbe(p, e, start, end, at)
             isUp == ~o.raised /\ TheValue(o.result).status = "Up"
         IN /\ total_executions' = total_executions + 1
            /\ successful_executions' = successful_executions + o.up
            /\ failed_executions' = failed_executions + o.failed
            /\ calls' = [n |-> calls.n + 1,
                         up |-> calls.up + (IF isUp THEN 1 ELSE 0),
                         nonUp |-> calls.nonUp + (IF ~o.raised /\ ~isUp THEN 1 ELSE 0),
                         raised |-> calls.raised + (IF o.raised THEN 1 ELSE 0)]
            /\ lastCall' = Some([raised |-> o.raised, result |-> o.result])
            /\ observed' = Some([probe |-> p, env |-> e, start |-> start, end |-> end,
                                 raised |-> o.raised, result |-> o.result])
    /\ UNCHANGED <<storeVars, histVars, loopVars, check, raceVars>>

EngineNext == ExecuteProbeObserved

EngineSpec == EngineInit /\ [][EngineNext]_vars

\* ------------------------------------------------------------------- Next
Next ==
    \/ \E t \in Storers : StoreInsertOk(t)
    \/ \E t \in Storers : StoreInsertFail(t)
    \/ \E t \in Storers : CleanupCount(t)
    \/ \E t \in Storers : CleanupDelete(t)
    \/ \E t \in Storers : CleanupFail(t)
    \/ SendHeartbeat
    \/ ManualSync
    \/ \E t \in Syncers : SyncRead(t)
    \/ \E t \in Syncers : SyncReadFail(t)
    \/ \E t \in Syncers : SyncPostOk(t)
    \/ \E t \in Syncers : SyncPostFail(t)
    \/ \E t \in Syncers : SyncMarkOk(t)
    \/ \E t \in Syncers : SyncMarkFail(t)
    \/ \E t \in Syncers : SyncStamp(t)
    \/ \E t \in Syncers : SyncReturn(t)

Spec == Init /\ [][Next]_vars

\* The gateway while the database answers every UPDATE of mark_results_synced:
\* every acknowledged push is followed by a mark that commits.
MarkedNext ==
    \/ \E t \in Storers : StoreInsertOk(t)
    \/ \E t \in Storers : StoreInsertFail(t)
    \/ \E t \in Storers : CleanupCount(t)
    \/ \E t \in Storers : CleanupDelete(t)
    \/ \E t \in Storers : CleanupFail(t)
    \/ SendHeartbeat
    \/ ManualSync
    \/ \E t \in Syncers : SyncRead(t)
    \/ \E t \in Syncers : SyncReadFail(t)
    \/ \E t \in Syncers : SyncPostOk(t)
    \/ \E t \in Syncers : SyncPostFail(t)
    \/ \E t \in Syncers : SyncMarkOk(t)
    \/ \E t \in Syncers : SyncStamp(t)
    \/ \E t \in Syncers : SyncReturn(t)

MarkedSpec == Init /\ [][MarkedNext]_vars

\* The gateway without requests to its /sync route: the sync loop is the only
\* caller of sync_results.
FairNext ==
    \/ \E t \in Storers : StoreInsertOk(t)
    \/ \E t \in Storers : StoreInsertFail(t)
    \/ \E t \in Storers : CleanupCount(t)
    \/ \E t \in Storers : CleanupDelete(t)
    \/ \E t \in Storers : CleanupFail(t)
    \/ SendHeartbeat
    \/ SyncRead("sync")
    \/ SyncReadFail("sync")
    \/ SyncPostOk("sync")
    \/ SyncPostFail("sync")
    \/ SyncMarkOk("sync")
    \/ SyncMarkFail("sync")
    \/ SyncStamp("sync")
    \/ SyncReturn("sync")

\* sync_scheduler's "while True" keeps the loop running; the backend eventually
\* acknowledges a push and the database eventually answers a statement. The
\* stores come as they may.
Fairness ==
    /\ WF_vars(SendHeartbeat)
    /\ WF_vars(SyncStamp("sync"))
    /\ WF_vars(SyncReturn("sync"))
    /\ SF_vars(SyncRead("sync"))
    /\ SF_vars(SyncPostOk("sync"))
    /\ SF_vars(SyncMarkOk("sync"))

FairSpec == Init /\ [][FairNext]_vars /\ Fairness

\* The same fairness with the /sync route in use.
FairSpecAll == Init /\ [][Next]_vars /\ Fairness

\* ------------------------------------- calls made one after the other
\* store_result_locally as one uninterrupted call on the table rs: the tables
\* it may leave. The INSERT commits; _cleanup_old_results counts the rows and,
\* above the cap c, deletes the oldest synced ones, unless a statement raises.
StoreResultLocally(rs, id, uid, ts, c) ==
    LET inserted == InsertRow(rs, id, uid, ts)
        total_count == Cardinality(inserted)
    IN IF total_count > c
       THEN {inserted \ D : D \in CleanupVictims(inserted, total_count - c)} \cup {inserted}
       ELSE {inserted}

\* sync_results as one uninterrupted call: b is the list get_unsynced_results
\* returned (empty too when its query raised), push and mark tell whether the
\* backend acknowledges a push and whether the UPDATE commits. The record holds the
\* table and last_sync_time the call leaves, the value it returns and the
\* results of the request it made, if it made one.
SyncResults(rs, ls, b, push, mark, ts) ==
    IF b = <<>>
    THEN [rows |-> rs, lastSync |-> ls, ret |-> 0, request |-> None]
    ELSE IF ~push
    THEN [rows |-> RowsAfterFailedPush(rs, ResultIds(b)), lastSync |-> ls, ret |-> 0,
          request |-> Some(ApiResults(b))]
    ELSE [rows |-> IF mark THEN MarkSynced(rs, ResultIds(b)) ELSE rs,
          lastSync |-> Some(ts),
          ret |-> Len(ApiResults(b)),
          request |-> Some(ApiResults(b))]

\* A result is stored while no sync_results call is running.
SeqStore ==
    /\ stored < MaxResults
    /\ \E at \in UtcNow :
         LET id == NewId(rows, nextId) IN
         /\ \E rs \in StoreResultLocally(rows, id, stored + 1, CheckedAt(at), cap) : rows' = rs
         /\ nextId' = id + 1
         /\ issued' = issued \cup {[id |-> id, uid |-> stored + 1]}
    /\ stored' = stored + 1
    /\ syncLog' = [syncLog EXCEPT !.since = TRUE]
    /\ UNCHANGED <<cap, lastSync, lastHeartbeat, st, sy, acked, execVars, loopVars, checkVars, raceVars>>

\* One sync_results call, from its read to its return.
SeqSync ==
    \E read \in BOOLEAN, push \in BOOLEAN, mark \in BOOLEAN, ts \in Times :
    \E b \in (IF read THEN UnsyncedLists(rows) ELSE {<<>>}) :
        LET o == SyncResults(rows, lastSync, b, push, mark, ts)
            call == [unsynced |-> Unsynced(rows), read |-> read, backendUp |-> push,
                     acked |-> b # <<>> /\ push, marked |-> b # <<>> /\ push /\ mark,
                     request |-> o.request, ret |-> o.ret]
        IN /\ rows' = o.rows
           /\ lastSync' = o.lastSync
           /\ acked' = IF call.acked THEN acked \cup ApiUids(b) ELSE acked
           /\ syncLog' = [prev |-> syncLog.last, last |-> Some(call),
                          between |-> syncLog.since, since |-> FALSE]
           /\ UNCHANGED <<cap, nextId, lastHeartbeat, stored, st, sy, issued, execVars,
                          loopVars, checkVars, raceVars>>

RetryNext == SeqStore \/ SeqSync

RetrySpec == Init /\ [][RetryNext]_vars

\* ------------------------------------------------- the checkers on their own
\* _execute_uptime_probe(probe) or _execute_api_probe(probe) is called: the
\* probe, what the network answers, the timeout the request is made with and
\* the dict the call returns (or the exception it lets out).
CheckerCall ==
    /\ \E p \in Probes : \E e \in Envs([p EXCEPT !.id = Some("p1")]) :
         /\ Get(p.type, "Uptime") \in {"Uptime", "API"}
         /\ check' = Some([probe |-> p, env |-> e, timeout |-> Timeout(p),
                           out |-> IF Get(p.type, "Uptime") = "API"
                                   THEN ExecuteApiProbe(p, e)
                                   ELSE ExecuteUptimeProbe(p, e)])
    /\ UNCHANGED <<storeVars, execVars, histVars, loopVars, observed, raceVars>>

CheckNext == CheckerCall

CheckSpec == Init /\ [][CheckNext]_vars

\* --------------------------------------------------- the two scheduler loops
\* The loops run for ever, and the table and the counters grow with them. What
\* a loop does next depends only on whether the call it made returned or
\* raised, so the actions below record each call and its outcome; what the
\* calls do to the table and to the counters is in the actions above.

\* The entries fetch_probes may return: a probe with or without its 'id', with
\* 'isActive' true, false or absent.
LoopProbes ==
    {[probe |-> p, isActive |-> a] :
        p \in {q \in Probes : /\ q.type = None /\ q.protocol = None
                              /\ q.expectedStatusCode = None
                              /\ q.expectedResponseTime = None /\ ~q.https},
        a \in {None, Some(TRUE), Some(FALSE)}}
\* probe.get('isActive', True)
IsActive(x) == Get(x.isActive, TRUE)
\* The lists fetch_probes may return.
ProbeLists == UNION {[1..k -> LoopProbes] : k \in 0..2}

\* Mutant: the loop body without its try/except: an exception ends the thread.
OnCycleError_Exit == "exit"
\* probe_scheduler's "except Exception": log, time.sleep(30), next cycle.
OnCycleError == "backoff"

\* probe_scheduler: fetch_probes() returns a list (the empty one when the
\* request failed), or something that "for probe in probes" cannot iterate.
ProbeFetch ==
    /\ ploop.pc = "fetch"
    /\ \/ \E L \in ProbeLists : ploop' = [pc |-> "next", probes |-> L, i |-> 1]
       \/ ploop' = [IdleProbeLoop EXCEPT !.pc = OnCycleError]
    /\ plog' = <<>>
    /\ UNCHANGED <<storeVars, execVars, histVars, sloop, slog, checkVars, raceVars>>

\* probe_scheduler: the "for" takes the next probe; an inactive one is skipped,
\* an active one is passed to execute_probe, whose exception ends the cycle.
ProbeNext ==
    /\ ploop.pc = "next"
    /\ ploop.i <= Len(ploop.probes)
    /\ LET x == ploop.probes[ploop.i] IN
       IF ~IsActive(x)
       THEN /\ ploop' = [ploop EXCEPT !.i = @ + 1]
            /\ plog' = plog
       ELSE \E e \in Envs(x.probe), end \in ClockReadings, at \in UtcNow :
              LET o == ExecuteProbe(x.probe, e, 0, end, at) IN
              /\ plog' = Append(plog, [op |-> "execute", i |-> ploop.i])
              /\ ploop' = [ploop EXCEPT !.pc = IF o.raised THEN OnCycleError ELSE "store"]
    /\ UNCHANGED <<storeVars, execVars, histVars, sloop, slog, checkVars, raceVars>>

\* probe_scheduler: store_result_locally(result), which stores the result or
\* logs its failure; then time.sleep(1) and the next probe.
ProbeStore ==
    /\ ploop.pc = "store"
    /\ plog' = Append(plog, [op |-> "store", i |-> ploop.i])
    /\ ploop' = [ploop EXCEPT !.pc = "next", !.i = @ + 1]
    /\ UNCHANGED <<storeVars, execVars, histVars, sloop, slog, checkVars, raceVars>>

\* probe_scheduler: the list is done; time.sleep(probe_check_interval).
ProbeListDone ==
    /\ ploop.pc = "next"
    /\ ploop.i > Len(ploop.probes)
    /\ ploop' = [ploop EXCEPT !.pc = "sleep"]
    /\ UNCHANGED <<storeVars, execVars, histVars, sloop, plog, slog, checkVars, raceVars>>

\* probe_scheduler: either sleep is over; "while True" starts the next cycle.
ProbeWake ==
    /\ ploop.pc \in {"sleep", "backoff"}
    /\ ploop' = IdleProbeLoop
    /\ UNCHANGED <<storeVars, execVars, histVars, sloop, plog, slog, checkVars, raceVars>>

\* Mutant: sync_results is called only after a heartbeat that succeeded.
AfterHeartbeat_OnlyIfSent(ok) == IF ok THEN "sync" ELSE "sleep"
\* sync_scheduler: send_heartbeat has returned (it raises nothing, whether the
\* backend answered or not); the next statement is sync_results().
AfterHeartbeat(ok) == "sync"

\* sync_scheduler: send_heartbeat().
LoopHeartbeat ==
    /\ sloop.pc = "heartbeat"
    /\ \E ok \in BOOLEAN :
         /\ sloop' = [pc |-> AfterHeartbeat(ok)]
         /\ slog' = <<[op |-> "heartbeat", ok |-> ok]>>
    /\ UNCHANGED <<storeVars, execVars, histVars, ploop, plog, checkVars, raceVars>>

\* sync_scheduler: sync_results(), which returns a count (0 after a failure)
\* that the loop drops; then time.sleep(sync_interval).
LoopSync ==
    /\ sloop.pc = "sync"
    /\ \E ok \in BOOLEAN : slog' = Append(slog, [op |-> "sync", ok |-> ok])
    /\ sloop' = [pc |-> "sleep"]
    /\ UNCHANGED <<storeVars, execVars, histVars, ploop, plog, checkVars, raceVars>>

\* sync_scheduler: the sleep is over; "while True" starts the next cycle.
LoopWake ==
    /\ sloop.pc = "sleep"
    /\ sloop' = IdleSyncLoop
    /\ UNCHANGED <<storeVars, execVars, histVars, ploop, plog, slog, checkVars, raceVars>>

ProbeLoopStep == ProbeFetch \/ ProbeNext \/ ProbeStore \/ ProbeListDone \/ ProbeWake
SyncLoopStep == LoopHeartbeat \/ LoopSync \/ LoopWake

LoopNext ==
    \/ ProbeFetch
    \/ ProbeNext
    \/ ProbeStore
    \/ ProbeListDone
    \/ ProbeWake
    \/ LoopHeartbeat
    \/ LoopSync
    \/ LoopWake

\* Both threads keep being scheduled, and every call they make returns: the
\* requests carry a timeout and the sleeps end.
LoopFairness == WF_vars(ProbeLoopStep) /\ WF_vars(SyncLoopStep)

LoopSpec == Init /\ [][LoopNext]_vars /\ LoopFairness

\* ------------------------------------------- a table kept from earlier runs
\* Number of rows in the database file _init_database finds (CREATE TABLE IF
\* NOT EXISTS keeps the rows of earlier runs).
MaxRows == 3

\* The tables earlier runs may have left: the id is the primary key, and one
\* result makes one row.
KeptTables ==
    UNION {{{[id |-> i, uid |-> i, checkedAt |-> f[i].checkedAt, synced |-> f[i].synced]
               : i \in I}
              : f \in [I -> [checkedAt : {CheckedAt(t) : t \in UtcNow}, synced : BOOLEAN]]}
             : I \in SUBSET (1..MaxRows)}

\* SyncService.__init__ on a database file that holds a table already.
TableInit ==
    /\ cap \in 0..MaxRows
    /\ rows \in KeptTables
    /\ nextId = MaxRows + 1
    /\ lastSync = None
    /\ lastHeartbeat = None
    /\ stored = 0
    /\ st = [t \in Storers |-> IdleStore]
    /\ sy = [t \in Syncers |-> IdleSync]
    /\ acked = {}
    /\ issued = {[id |-> r.id, uid |-> r.uid] : r \in rows}
    /\ total_executions = 0
    /\ successful_executions = 0
    /\ failed_executions = 0
    /\ calls = [n |-> 0, up |-> 0, nonUp |-> 0, raised |-> 0]
    /\ lastCall = None
    /\ syncLog = NoSyncLog
    /\ ploop = IdleProbeLoop
    /\ sloop = IdleSyncLoop
    /\ plog = <<>>
    /\ slog = <<>>
    /\ check = None
    /\ observed = None
    /\ ex = [t \in Executors |-> IdleExec]

\* One _cleanup_old_results call that runs to its commit: the count, and the
\* DELETE when the count is above the cap.
CleanupOldResults ==
    /\ LET total_count == Cardinality(rows) IN
         IF total_count > cap
         THEN \E D \in CleanupVictims(rows, total_count - cap) : rows' = rows \ D
         ELSE rows' = rows
    /\ UNCHANGED <<cap, nextId, lastSync, lastHeartbeat, stored, st, sy, acked, issued,
                   execVars, auxVars>>

TableNext == CleanupOldResults
TableSpec == TableInit /\ [][TableNext]_vars

\* ----------------------------------------------------------------- claims
Uids(rs) == {r.uid : r \in rs}
Ids(rs) == {r.id : r \in rs}

\* C1: a row is synced only if its result was in a batch that sync_results
\* pushed and the backend acknowledged; in particular a row stored after the
\* call read the unsynced set, which is in no such batch, is not marked.
C1_SyncedOnlyIfAcked == \A r \in rows : r.synced => r.uid \in acked

\* A sync_results call has marked its batch while a row that is not in the
\* batch (stored after the read) is in the table, unsynced.
C1_Witness ==
    \E t \in Syncers :
        /\ sy[t].pc = "stamp"
        /\ \E r \in rows : r.synced /\ r.uid \in ApiUids(sy[t].batch)
        /\ \E r \in rows : ~r.synced /\ r.uid \notin ApiUids(sy[t].batch)

\* C2: a sync_results call whose push fails returns 0 and none of its steps
\* (the read, the failed push) changes the table or last_sync_time. The code
\* catches every exception, so the call has no outcome other than a return.
C2_FailedPushChangesNothing ==
    [][\A t \in Syncers :
          (sy[t].pc \in {"read", "post"} /\ sy'[t] # sy[t] /\ sy'[t].pc # "mark")
          => /\ rows' = rows
             /\ lastSync' = lastSync
             /\ sy'[t].pc = "done" => sy'[t].ret = Some(0)]_vars

\* A call has returned 0 after a push that failed: its rows are still unsynced.
C2_Witness ==
    \E t \in Syncers :
        /\ sy[t].pc = "done" /\ sy[t].sent /\ sy[t].ret = Some(0)
        /\ Unsynced(rows) # {}
        /\ lastSync = None

\* C3: no step deletes a row whose synced flag is false, whatever the cap and
\* however far the row count exceeds it.
C3_NeverDeletesUnsynced ==
    [][\A r \in rows : ~r.synced => \E r2 \in rows' : r2.id = r.id /\ r2.uid = r.uid]_vars

\* The cleanup has deleted a row, and the table, still above the cap, holds an
\* unsynced row.
C3_Witness ==
    /\ \E p \in issued : p.uid \notin Uids(rows)
    /\ Unsynced(rows) # {}
    /\ Cardinality(rows) > cap
    /\ \A t \in Storers : st[t].pc = "idle"

C7_SyncedNeverReverts ==
    [][\A r \in rows : r.synced => \A r2 \in rows' : r2.id = r.id => r2.synced]_vars

\* A call has marked a batch that does not hold a row synced earlier, and that
\* row is still synced.
C7_Witness ==
    \E t \in Syncers :
        /\ sy[t].pc = "stamp"
        /\ \E r \in rows : r.synced /\ r.id \in ResultIds(sy[t].batch)
        /\ \E r \in rows : r.synced /\ r.id \notin ResultIds(sy[t].batch)

\* C8: a new row's id is greater than every id ever assigned, a row's id never
\* changes, and an id held by an in-flight batch denotes the row it was read
\* from, if any.
C8_IdsIncreaseAndStable ==
    [][\/ (rows' = rows /\ sy' = sy)
       \/ /\ \A r2 \in rows' : r2.uid \notin Uids(rows) => \A p \in issued : r2.id > p.id
          /\ \A r \in rows : \A r2 \in rows' : r.uid = r2.uid => r.id = r2.id
          /\ \A t \in Syncers : \A i \in 1..Len(sy'[t].batch) :
                \A r2 \in rows' : r2.id = sy'[t].batch[i].id => r2.uid = sy'[t].batch[i].uid]_vars

\* A row was stored after an earlier row had been evicted, with a greater id.
C8_Witness ==
    /\ \E t \in Storers : st[t].pc = "count"
    /\ \E p \in issued : p.uid \notin Uids(rows) /\ \E r \in rows : r.id > p.id

\* C10: with no unsynced row in the table, sync_results returns 0 at its read,
\* having sent nothing, and changes neither the table nor last_sync_time.
C10_NothingToSync ==
    [][\A t \in Syncers :
          (sy[t].pc = "read" /\ Unsynced(rows) = {} /\ sy'[t] # sy[t])
          => /\ sy'[t].pc = "done"
             /\ sy'[t].ret = Some(0)
             /\ ~sy'[t].sent
             /\ rows' = rows
             /\ lastSync' = lastSync]_vars

\* A call found only synced rows and returned 0 without a request.
C10_Witness ==
    \E t \in Syncers :
        /\ sy[t].pc = "done" /\ ~sy[t].sent /\ sy[t].ret = Some(0)
        /\ rows # {}
        /\ Unsynced(rows) = {}
        /\ lastSync # None

\* C5: execute_probe lets no exception out and returns a result whose status,
\* gateway id, probe id, check timestamp and response time are populated.
C5_AlwaysOneWellFormedResult ==
    lastCall # None =>
        LET c == TheValue(lastCall) IN
        /\ ~c.raised
        /\ c.result # None
        /\ LET r == TheValue(c.result) IN
           /\ r.status \in {"Up", "Down", "Warning", "Unknown"}
           /\ r.gatewayId # None
           /\ r.probeId # None
           /\ r.checkedAt # None
           /\ r.responseTime # None

\* C6: in every result returned, status Up implies no error message, and any
\* other status implies an error message that is set and not empty.
C6_StatusMatchesMessage ==
    (lastCall # None /\ TheValue(lastCall).result # None) =>
        LET r == TheValue(TheValue(lastCall).result) IN
        /\ r.status = "Up" => r.errorMessage = None
        /\ r.status # "Up" => (r.errorMessage # None /\ ~MsgEmpty(TheValue(r.errorMessage)))

\* C9: after any sequence of calls, total = number of calls = successful +
\* failed, successful = calls that returned Up, failed = calls that returned
\* another status.
C9_CountersMatchCalls ==
    /\ total_executions = calls.n
    /\ total_executions = successful_executions + failed_executions
    /\ successful_executions = calls.up
    /\ failed_executions = calls.nonUp

\* The results of a request, as a set.
RequestResults(q) == {q[i] : i \in 1..Len(q)}
\* Two sync_results calls were made with no row stored between them.
TwoCallsNoStore ==
    syncLog.prev # None /\ syncLog.last # None /\ ~syncLog.between

\* C11 as stated: of two sync_results calls with no row stored between them,
\* the second returns 0 and makes no request.
C11_SecondCallDoesNothing ==
    TwoCallsNoStore =>
        LET second == TheValue(syncLog.last) IN
        second.ret = 0 /\ second.request = None

\* C11 amended: of two sync_results calls with no row stored between them, the
\* second returns 0 and makes no request when the first left no unsynced row:
\* its push was acknowledged and its batch marked, or it had nothing to sync.
C11_SecondCallAfterSuccess ==
    TwoCallsNoStore =>
        LET first == TheValue(syncLog.prev)
            second == TheValue(syncLog.last)
        IN (first.marked \/ first.unsynced = {})
           => (second.ret = 0 /\ second.request = None)

\* A call that pushed and marked a batch was followed, with nothing stored in
\* between, by a call that returned 0 without a request.
C11_Witness ==
    /\ TwoCallsNoStore
    /\ TheValue(syncLog.prev).marked
    /\ TheValue(syncLog.prev).ret > 0
    /\ TheValue(syncLog.last).ret = 0
    /\ TheValue(syncLog.last).request = None

C13_CapEnforced ==
    (\A t \in Storers : st[t].pc = "idle")
        => Cardinality(rows) <= Max(cap, Cardinality(Unsynced(rows)))

\* The moment a stored check timestamp names, in microseconds.
CheckTime(text) == text[1] * 1000000 + (IF text[2] = CharDot THEN text[3] ELSE 0)

\* C14: _cleanup_old_results on a table of T rows, S of them synced, with cap C:
\* with T <= C it deletes nothing; otherwise it removes exactly min(S, T - C)
\* rows, all synced and none checked later than a synced row that stays, and
\* leaves max(C, T - S) rows with every unsynced row among them.
C14_CleanupResult ==
    [][CleanupOldResults
          => LET T == Cardinality(rows)
                 S == Cardinality(Synced(rows))
                 D == rows \ rows'
             IN /\ T <= cap => rows' = rows
                /\ T > cap =>
                      /\ rows' \subseteq rows
                      /\ Cardinality(D) = Min(S, T - cap)
                      /\ D \subseteq Synced(rows)
                      /\ \A d \in D : \A r \in Synced(rows') :
                            CheckTime(d.checkedAt) <= CheckTime(r.checkedAt)
                      /\ Cardinality(rows') = Max(cap, T - S)
                      /\ Unsynced(rows') = Unsynced(rows)]_vars

\* C15: send_heartbeat, whether the backend answers or not, returns to
\* sync_scheduler, which goes on to sync_results, and leaves every row and
\* last_sync_time as they were.
C15_HeartbeatLeavesStore ==
    [][SendHeartbeat
          => /\ rows' = rows
             /\ lastSync' = lastSync
             /\ sy'["sync"].pc = "read"]_vars

\* A heartbeat was sent with synced and unsynced rows in the table and a sync
\* recorded.
C15_Witness ==
    /\ sy["sync"].pc = "read"
    /\ Synced(rows) # {}
    /\ Unsynced(rows) # {}
    /\ lastSync # None
    /\ lastHeartbeat # None

\* The last checker call was an HTTP request: a Reachability probe over HTTP or
\* HTTPS, or a ScriptedRequest probe.
HttpCall ==
    /\ check # None
    /\ LET p == TheValue(check).probe IN
       \/ Get(p.type, "Uptime") = "API"
       \/ Get(p.protocol, "HTTPS") \in {"HTTP", "HTTPS"}

\* C19: the timeout, in seconds, is B/1000 when the probe carries the budget B
\* and the configured default_timeout when it carries none.
C19_TimeoutNormalized ==
    check # None =>
        LET c == TheValue(check) IN
        IF c.probe.expectedResponseTime # None
        THEN c.timeout.num * 1000 = TheValue(c.probe.expectedResponseTime) * c.timeout.den
        ELSE c.timeout.num = DefaultTimeout * c.timeout.den

\* C20: on a response with status code A while E is expected, the status is Up
\* iff A = E; with A = E the status code is A and no error message is set; with
\* A # E the status is Down, the status code is A and the error message is
\* "Expected status E, got A".
C20_StatusComparedWithExpected ==
    (HttpCall /\ TheValue(check).env.tag = "response") =>
        LET c == TheValue(check)
            A == c.env.code
            E == Get(c.probe.expectedStatusCode, DefaultExpectedStatus)
            r == c.out.upd
        IN /\ ~c.out.raised
           /\ r.status = "Up" <=> A = E
           /\ r.statusCode = Some(A)
           /\ A = E => r.errorMessage = None
           /\ A # E => /\ r.status = "Down"
                       /\ r.errorMessage =
                            Some(<<"Expected status ", ToString(E), ", got ", ToString(A)>>)

\* A probe that expects 503 got 503 and is Up.
C20_Witness ==
    /\ HttpCall
    /\ TheValue(check).env.tag = "response"
    /\ TheValue(check).env.code = 503
    /\ TheValue(check).probe.expectedStatusCode = Some(503)
    /\ TheValue(check).out.upd.status = "Up"

\* C16: neither loop terminates, whatever fails inside a cycle: each of them
\* begins another cycle again and again.
C16_LoopsNeverTerminate ==
    /\ []<>(ploop.pc = "fetch")
    /\ []<>(sloop.pc = "heartbeat")

\* The probe loop is in its "except" branch after execute_probe raised, and the
\* sync loop has ended a cycle whose heartbeat and sync both failed.
C16_Witness ==
    /\ ploop.pc = "backoff"
    /\ plog # <<>>
    /\ sloop.pc = "sleep"
    /\ \A k \in 1..Len(slog) : ~slog[k].ok

\* What a cycle over the list L does from its i-th probe on, when every active
\* probe is executed and its result stored before the next one is taken.
RECURSIVE ExpectedLog(_, _)
ExpectedLog(L, i) ==
    IF i > Len(L) THEN <<>>
    ELSE (IF IsActive(L[i])
          THEN <<[op |-> "execute", i |-> i], [op |-> "store", i |-> i]>>
          ELSE <<>>) \o ExpectedLog(L, i + 1)
IsPrefix(a, b) == Len(a) <= Len(b) /\ SubSeq(b, 1, Len(a)) = a

\* C17: in a cycle over the fetched list, the probes executed are the active
\* ones, once each and in list order, each one's result stored before the next
\* probe is executed, whatever the earlier probes ended with.
C17_ActiveProbesInOrder ==
    ploop.pc # "fetch" =>
        /\ IsPrefix(plog, ExpectedLog(ploop.probes, 1))
        /\ ploop.pc \in {"sleep", "backoff"} => plog = ExpectedLog(ploop.probes, 1)

\* The shape of a sync-loop cycle: the heartbeat, then the sync.
SyncCycleShape ==
    /\ sloop.pc = "sync" => (Len(slog) = 1 /\ slog[1].op = "heartbeat")
    /\ sloop.pc \in {"sleep", "heartbeat"} =>
          \/ slog = <<>> /\ sloop.pc = "heartbeat"
          \/ Len(slog) = 2 /\ slog[1].op = "heartbeat" /\ slog[2].op = "sync"

\* C18: in every cycle of the sync loop the heartbeat comes first and
\* sync_results is called after it, whether the heartbeat succeeded or not;
\* after a sync that failed the next cycle's heartbeat is still sent.
C18_HeartbeatThenSync ==
    /\ []SyncCycleShape
    /\ (sloop.pc = "sync") ~> (sloop.pc = "sleep")
    /\ (sloop.pc = "sleep" /\ ~slog[2].ok) ~> (sloop.pc = "sync")

\* A cycle whose heartbeat failed has called sync_results, which failed too.
C18_Witness ==
    /\ sloop.pc = "sleep"
    /\ Len(slog) = 2
    /\ slog[1].op = "heartbeat" /\ ~slog[1].ok
    /\ slog[2].op = "sync" /\ ~slog[2].ok

\* The recorded call was a check of the given kind that met a transport error
\* (a timeout, a refused connection, a name that does not resolve).
TransportError(c) ==
    LET ty == Get(c.probe.type, "Uptime")
        proto == Get(c.probe.protocol, "HTTPS")
    IN /\ c.probe.id # None
       /\ \/ /\ ty = "API" \/ (ty = "Uptime" /\ proto \in {"HTTP", "HTTPS"})
             /\ c.env.tag \in {"timeout", "request_exception"}
          \/ /\ ty = "Uptime" /\ proto = "TCP"
             /\ c.env.tag \in {"refused", "exception"}
          \/ /\ ty = "Uptime" /\ proto \in {"SMTP", "DNS"}
             /\ c.env.tag = "exception"
          \/ /\ ty = "Security"
             /\ c.env.tag = "checked"
             /\ c.env.cert = "error" \/ c.env.page = "exception"

\* C21: an execute_probe call whose check met a transport error returns a
\* result (it raises nothing) with status Down and an error message that is
\* not empty, whatever the probe type.
C21_TransportErrorIsDown ==
    (observed # None /\ TransportError(TheValue(observed))) =>
        LET c == TheValue(observed) IN
        /\ ~c.raised
        /\ c.result # None
        /\ TheValue(c.result).status = "Down"
        /\ TheValue(c.result).errorMessage # None
        /\ ~MsgEmpty(TheValue(TheValue(c.result).errorMessage))

\* The recorded call ran both checks of a security probe to their end.
SecurityCall ==
    /\ observed # None
    /\ TheValue(observed).probe.id # None
    /\ Get(TheValue(observed).probe.type, "Uptime") = "Security"
    /\ TheValue(observed).env.tag = "checked"

\* The number of findings of the certificate check and of the header check.
CertFindings(e) == IF e.cert \in {"expiring", "error"} THEN 1 ELSE 0
HeaderFindings(e) ==
    CASE e.page = "clean" -> 0
      [] e.page = "missing_and_disclosed" -> 2
      [] OTHER -> 1

\* The pieces of a message that start an issue of the certificate check, and
\* of the header check.
CertPieces == {"SSL certificate expires in ", "SSL certificate error: "}
HeaderPieces ==
    {"Missing security headers: ", "Server version disclosed: ", "HTTP check failed: "}
Positions(msg, S) == {i \in 1..Len(msg) : msg[i] \in S}

\* C22: the result of a security probe carries the findings of the certificate
\* check followed by those of the header check, joined by "; " into the error
\* message; with no finding the status is Up, the status code 200 and there is
\* no message, and with any finding the status is Warning and the code 206.
C22_SecurityStatusFromIssues ==
    SecurityCall =>
        LET c == TheValue(observed)
            r == TheValue(c.result)
            n == CertFindings(c.env) + HeaderFindings(c.env)
        IN /\ ~c.raised
           /\ (r.status = "Up" /\ r.statusCode = Some(200)) <=> n = 0
           /\ (r.status = "Warning" /\ r.statusCode = Some(206)) <=> n > 0
           /\ r.errorMessage = None <=> n = 0
           /\ n > 0 =>
                 LET msg == TheValue(r.errorMessage) IN
                 /\ Cardinality(Positions(msg, CertPieces)) = CertFindings(c.env)
                 /\ Cardinality(Positions(msg, HeaderPieces)) = HeaderFindings(c.env)
                 /\ Cardinality(Positions(msg, {"; "})) = n - 1
                 /\ \A i \in Positions(msg, CertPieces) :
                       \A j \in Positions(msg, HeaderPieces) : i < j

\* A security probe found an expiring certificate and two header issues.
C22_Witness ==
    /\ SecurityCall
    /\ TheValue(observed).env.cert = "expiring"
    /\ TheValue(observed).env.page = "missing_and_disclosed"
    /\ TheValue(TheValue(observed).result).status = "Warning"
    /\ Len(TheValue(TheValue(TheValue(observed).result).errorMessage)) = 9

\* The probe types execute_probe knows.
KnownTypes == {"Uptime", "API", "Security", "Browser"}

\* C23: an execute_probe call for a probe of an unknown type X returns a result
\* with status Down and the error message "unsupported probe type: X", and
\* adds one to total_executions and one to failed_executions (and nothing to
\* successful_executions).
C23_UnknownTypeRejected ==
    [][(ExecuteProbeObserved
          /\ Get(TheValue(observed').probe.type, "Uptime") \notin KnownTypes)
        => LET c == TheValue(observed') IN
           /\ ~c.raised
           /\ c.result # None
           /\ TheValue(c.result).status = "Down"
           /\ TheValue(c.result).errorMessage
                 = Some(<<"unsupported probe type: ", TheValue(c.probe.type)>>)
           /\ c.env = NoEnv
           /\ total_executions' = total_executions + 1
           /\ failed_executions' = failed_executions + 1
           /\ successful_executions' = successful_executions]_vars

\* C24: every result execute_probe returns carries as its response time the
\* whole milliseconds elapsed between the clock reading at entry and the one
\* at return, never negative, also when the check reported a failure or raised.
C24_ResponseTimeIsElapsed ==
    (observed # None /\ TheValue(observed).result # None) =>
        LET c == TheValue(observed)
            r == TheValue(c.result)
        IN /\ c.end >= c.start
           /\ r.responseTime # None
           /\ LET ms == TheValue(r.responseTime) IN
              /\ ms \in Nat
              /\ ms * 1000 <= c.end - c.start
              /\ c.end - c.start < (ms + 1) * 1000

\* A check raised after two and a half milliseconds, and the result says 2.
C24_Witness ==
    /\ observed # None
    /\ TheValue(observed).env.tag = "exception"
    /\ Get(TheValue(observed).probe.type, "Uptime") = "API"
    /\ TheValue(observed).end - TheValue(observed).start = 2500
    /\ TheValue(observed).result # None
    /\ TheValue(TheValue(observed).result).status = "Down"
    /\ TheValue(TheValue(observed).result).responseTime = Some(2)

C27_PushCarriesWholeBacklog ==
    [][\A t \in Syncers :
          \/ sy'[t] = sy[t]
          \/ /\ (sy[t].pc = "read" /\ sy'[t].pc = "post")
                  => LET b == sy'[t].batch IN
                     /\ {b[i] : i \in 1..Len(b)} = {Entry(r) : r \in Unsynced(rows)}
                     /\ Len(b) = Cardinality(Unsynced(rows))
             /\ (sy[t].pc = "post" /\ sy'[t].pc = "mark")
                  => LET q == ApiResults(sy[t].batch) IN
                     /\ sy'[t].batch = sy[t].batch
                     /\ Len(q) = Len(sy[t].batch)
                     /\ \A i \in 1..Len(q) :
                           /\ "id" \notin DOMAIN q[i]
                           /\ q[i].uid = sy[t].batch[i].uid
                           /\ q[i].checkedAt = sy[t].batch[i].checkedAt
                     /\ acked' = acked \cup {q[i].uid : i \in 1..Len(q)}
             /\ (sy[t].pc = "mark" /\ sy'[t].pc = "stamp") => sy'[t].batch = sy[t].batch
             /\ (sy[t].pc = "stamp" /\ sy'[t].pc = "done")
                  => sy'[t].ret = Some(Len(sy[t].batch))]_vars

\* A call has pushed a backlog of two rows and returned 2.
C27_Witness ==
    \E t \in Syncers :
        /\ sy[t].pc = "done"
        /\ sy[t].ret = Some(2)
        /\ Cardinality(acked) = 2
        /\ Cardinality(Synced(rows)) = 2

\* C28: the list a sync_results call got from get_unsynced_results is
\* oldest-first: of two entries, the one checked earlier does not come after
\* the one checked later.
C28_OldestFirst ==
    \A t \in Syncers :
        LET b == sy[t].batch IN
        \A i, j \in 1..Len(b) :
            CheckTime(b[i].checkedAt) < CheckTime(b[j].checkedAt) => i < j

\* C29: once every execute_probe call has returned, total_executions is the
\* number of calls made and equals successful_executions plus
\* failed_executions, also when calls of the two callers overlapped.
C29_CountersAtomic ==
    (\A t \in Executors : ex[t].pc = "idle") =>
        /\ total_executions = calls.n
        /\ total_executions = successful_executions + failed_executions

\* C30: while every acknowledged push is followed by a mark that commits, no
\* push that the backend acknowledges carries a result that an earlier
\* acknowledged push carried, whichever way the calls of sync_scheduler and of
\* the /sync route interleave.
C30_AckedAtMostOnce ==
    [][\A t \in Syncers :
          (sy[t].pc = "post" /\ sy'[t].pc = "mark")
          => ApiUids(sy[t].batch) \cap acked = {}]_vars

\* C31: when a sync_results call records the sync time and returns a count
\* n > 0, every row of the batch it sent that is in the table is marked synced;
\* a mark that failed is not reported as n results synced.
C31_ReturnedCountIsMarked ==
    [][\A t \in Syncers :
          (sy[t].pc = "stamp" /\ sy'[t].pc = "done"
             /\ sy'[t].ret # None /\ TheValue(sy'[t].ret) > 0)
          => /\ lastSync' # None
             /\ \A r \in rows' : r.id \in ResultIds(sy[t].batch) => r.synced]_vars

====
